---- MODULE Spec2Model ----
(***************************************************************************)
(* Model of the BeatBoss playback engines.                                 *)
(*                                                                         *)
(* Spec models the process-backend engine, src/player_ffmpeg.py: command   *)
(* threads call play_url / pause / resume / seek / stop on one AudioPlayer *)
(* while the ffplay processes it spawned run and exit, and while the       *)
(* monitor threads started by play_url read them.  One action is one       *)
(* interruptible step of the Python code: a thread switch can happen       *)
(* between any two of them, as between any two bytecodes that touch shared *)
(* attributes.  SpecRace is the same engine, started while it is playing,  *)
(* with one thread calling play_url and another calling stop; SpecFault    *)
(* and SpecVolume drive it from one thread, with ffplay failing by itself  *)
(* and with the volume being set.  SpecVlc models the VLC engine,          *)
(* src/player.py, which converts local files with ffmpeg before it plays   *)
(* them.  SpecLive is either engine under fair scheduling of the command   *)
(* threads.  SpecPosition, SpecBeyond and SpecTeardown drive the ffplay    *)
(* engine from one thread: with the seek bar, with seeks beyond the end    *)
(* of the source, and with processes that ignore the request to            *)
(* terminate.  SpecFlet models the position tracking of the flet engine,   *)
(* src/src/player.py.  SpecQueue and SpecRetry model the application,      *)
(* src/src/main.py: the handlers of the play queue, of shuffle and of the  *)
(* loop modes, and the threads that retry a track after an error.          *)
(***************************************************************************)
EXTENDS Integers, FiniteSets, Sequences, TLC

\* ---------------------------------------------------------------- bounds
NumThreads == 2
MaxProcs == 3
MaxCmds == 3
MaxTime == 1
MaxDur == 1
MaxCalls == 2
MaxTicks == 3
MaxTracks == 2
MaxQueue == 3
MaxErrors == 3

\* ------------------------------------------------------ program constants
DefaultLength == 300000
DefaultVolume == 80
FlinchThreshold == 2000
GraceWindow == 2
LastSeekTime == 0
MaxRetries == 2

Threads == 1..NumThreads
Procs == 1..MaxProcs
Times == 0..MaxTime
Durs == 1..MaxDur
Urls == {1}
None == 0
Calls == 1..MaxCalls
Tracks == 1..MaxTracks
\* what play_url is given: a stream URL, the path of a local file, the path
\* of a file that does not exist
Sources == {"stream", "local", "missing"}
\* what the volume slider passes to set_volume, in halves of a percent
\* (30.5 and 100.0): the slider's value is a float from 0 to 100
Volumes == {61, 200}

VARIABLES
    \* AudioPlayer attributes
    process, current_url, current_track, is_playing, internal_stop,
    current_time, duration, lock, volume,
    \* module global _FFPLAY_PATH (TRUE: ffplay was located)
    ffplay_path,
    \* the operating system's view of every ffplay process, and the -volume
    \* argument of the latest Popen (<<>> before the first one)
    procState, started_volume,
    \* command threads: position in the code, the arguments of the call and
    \* the -volume element of the list cmd of lines 86-95
    pc, cmd, ret, url, preserve_state, start_pos, cmd_volume,
    \* monitor threads (monitor m is started by the play_url that spawned m)
    mpc, proc,
    \* observations of the run, read by the properties only:
    \*   ncmds               commands issued so far
    \*   track_end_calls[p]  calls of on_track_end (line 209) by a monitor that
    \*                       holds process p
    \*   on_error_calls[p]   calls of on_error (line 127) by the play_url whose
    \*                       Popen number p raised
    \*   torn_down           processes that had exited with status 0 when the
    \*                       stop_internal of a stop, seek or pause terminated them
    \*   spurious            on_track_end was called for a process of torn_down
    \*   cb_faults           "lock_held" / "command_thread": how a callback was
    \*                       invoked
    \*   last                the command issued last: its name, "mixed" when it
    \*                       was issued while another command was running,
    \*                       "void" when it returned without spawning,
    \*                       "unavailable" when it returned because ffplay is
    \*                       missing
    \*   paused              <<>>, <<p>> while the last command, a pause, has
    \*                       terminated process p, <<p, x, n>> once that pause
    \*                       has returned with current_time = x and
    \*                       track_end_calls[p] = n; a resume keeps it
    ncmds, track_end_calls, on_error_calls, torn_down, spurious, cb_faults, last,
    paused,
    \* ---- the VLC engine, src/player.py
    \* AudioPlayer attributes (instance, player: the handle has been created)
    instance, player, vlc_is_playing, vlc_current_track, vlc_lock,
    ffmpeg_process, temp_file,
    \* the ffmpeg processes, the temporary files that exist, what the VLC
    \* media player has loaded (<<>> or <<kind, call>>) and its state
    ffmpegState, disk, media, playerState,
    \* the thread of _init_vlc, the command threads and their play_url call
    ipc, vpc, vcall, vurl,
    \* observations, read by the properties only:
    \*   ncalls       play_url calls issued so far
    \*   cancelled    calls whose conversion was running when another
    \*                thread issued stop()
    \*   superseded   calls whose conversion was running when another
    \*                thread issued play_url
    \*   conv_failed  calls whose conversion failed
    \*   started      calls that started the VLC media player
    \*   events       <<call, "end" | "error">>: callbacks fired while the
    \*                media of that call was loaded
    ncalls, cancelled, superseded, conv_failed, started, events,
    \* ---- the flet engine, src/src/player.py
    \* AudioPlayer attributes, the polling loop of play_url is running, the
    \* seek handed to the event loop (<<>> or <<ms>>) and time.time()
    current_position, flet_is_playing, monitoring, seek_task, clock,
    \* observations, read by the properties only:
    \*   seek_at      <<>>, or <<the time at which seek or resume was called
    \*                last>>
    \*   last_sample  <<>>, or <<ms, accepted>> for the position reported last
    seek_at, last_sample,
    \* ---- the application, src/src/main.py
    \* attributes of the application object, current_track of its flet
    \* engine (src/src/player.py, line 104), the threads started for on_error
    \* that have not run yet and the ones asleep at line 1593
    queue, current_track_index, shuffle_enabled, loop_mode, original_queue,
    current_retry_count, flet_current_track, error_threads, sleeping,
    \* observations, read by the properties only:
    \*   issued        <<>>, or <<track, is_retry>>: the call of _play_track
    \*                 made by the handler that ran last
    \*   auto_plays    play_url calls made by retries since the last
    \*                 _play_track that was not a retry
    \*   nerrors       play_url calls that raised so far
    \*   out_of_range  a handler has indexed the queue out of range
    issued, auto_plays, nerrors, out_of_range

ffplay == << process, current_url, current_track, is_playing, internal_stop,
             current_time, duration, lock, volume, ffplay_path, procState,
             started_volume, pc, cmd, ret, url, preserve_state, start_pos,
             cmd_volume, mpc, proc,
             ncmds, track_end_calls, on_error_calls, torn_down, spurious, cb_faults,
             last, paused >>
vlcEngine == << instance, player, vlc_is_playing, vlc_current_track,
                ffmpeg_process, temp_file >>
vlcWorld == << ffmpegState, disk, media, playerState >>
vlcLocals == << vpc, vcall, vurl >>
vlcObserved == << ncalls, cancelled, superseded, conv_failed, started, events >>
vlc == << vlcEngine, vlc_lock, vlcWorld, ipc, vlcLocals, vlcObserved >>
flet == << current_position, flet_is_playing, monitoring, seek_task, clock,
          seek_at, last_sample >>
main == << queue, current_track_index, shuffle_enabled, loop_mode, original_queue,
          current_retry_count, flet_current_track, error_threads, sleeping,
          issued, auto_plays, nerrors, out_of_range >>
app == << flet, main >>
vars == << ffplay, vlc, app >>

locals == << pc, cmd, ret, url, preserve_state, start_pos, cmd_volume >>
fixed == << ffplay_path, vlc, app >>
settings == << fixed, volume >>
engine == << process, current_url, current_track, is_playing, internal_stop,
             current_time, duration >>
observed == << track_end_calls, on_error_calls, torn_down, spurious, cb_faults >>
monitors == << mpc, proc >>

Live == {"alive", "terming"}
Dead == {"exit0", "killed", "fault"}
Spawned == {p \in Procs : procState[p] # "unspawned"}
LiveProcs == {p \in Procs : procState[p] \in Live}
UsedPids == Cardinality(Spawned)
LastPid == UsedPids
Spawners == {"play", "resume", "seek"}
\* threads that are inside play_url and have not reached Popen yet
Pending == {t \in Threads : cmd[t] \in Spawners /\ pc[t] \in
               {"pu_lock", "si_flag", "si_if", "si_term", "si_wait", "si_kill",
                "si_clear", "si_playing", "si_reset", "pu_check", "pu_spawn"}}
CanSpawn == UsedPids + Cardinality(Pending) < MaxProcs
AllIdle == \A t \in Threads : pc[t] = "idle"
OthersIdle(t) == \A u \in Threads \ {t} : pc[u] = "idle"

TypeOK ==
    /\ process \in Procs \cup {None}
    /\ current_url \in Urls \cup {None}
    /\ current_track \in Urls \cup {None}
    /\ is_playing \in BOOLEAN
    /\ internal_stop \in BOOLEAN
    /\ current_time \in Times
    /\ duration \in Durs \cup {0}
    /\ lock \in Threads \cup {None}
    /\ ffplay_path \in BOOLEAN
    /\ procState \in [Procs -> {"unspawned", "alive", "terming", "exit0", "killed",
                                  "fault", "failed"}]
    /\ volume \in 0..100
    /\ Len(started_volume) = IF UsedPids = 0 THEN 0 ELSE 1
    /\ ncmds \in 0..MaxCmds

\* src/player.py, lines 144-159: the VLC engine after construction; the
\* thread of _init_vlc has been started.
VlcIdle ==
    /\ instance = FALSE
    /\ player = FALSE
    /\ vlc_is_playing = FALSE
    /\ vlc_current_track = None
    /\ vlc_lock = None
    /\ ffmpeg_process = None
    /\ temp_file = None
    /\ ffmpegState = [c \in Calls |-> "unspawned"]
    /\ disk = {}
    /\ media = << >>
    /\ playerState = "stopped"
    /\ ipc = "start"
    /\ vpc = [t \in Threads |-> "idle"]
    /\ vcall = [t \in Threads |-> None]
    /\ vurl = [t \in Threads |-> "none"]
    /\ ncalls = 0
    /\ cancelled = {}
    /\ superseded = {}
    /\ conv_failed = {}
    /\ started = {}
    /\ events = {}

\* src/src/player.py, lines 7-29: the flet engine after construction.
FletIdle ==
    /\ current_position = 0
    /\ flet_is_playing = FALSE
    /\ monitoring = FALSE
    /\ seek_task = << >>
    /\ clock = GraceWindow
    /\ seek_at = << >>
    /\ last_sample = << >>

\* src/src/main.py, lines 90-107: the application after construction.
MainIdle ==
    /\ queue = << >>
    /\ current_track_index = -1
    /\ shuffle_enabled = FALSE
    /\ loop_mode = "off"
    /\ original_queue = << >>
    /\ current_retry_count = 0
    /\ flet_current_track = None
    /\ error_threads = 0
    /\ sleeping = 0
    /\ issued = << >>
    /\ auto_plays = 0
    /\ nerrors = 0
    /\ out_of_range = FALSE

Init ==
    /\ VlcIdle
    /\ FletIdle
    /\ MainIdle
    /\ process = None
    /\ current_url = None
    /\ current_track = None
    /\ is_playing = FALSE
    /\ internal_stop = FALSE
    /\ current_time = 0
    /\ duration = 0
    /\ lock = None
    /\ volume = DefaultVolume
    /\ ffplay_path \in BOOLEAN
    /\ procState = [p \in Procs |-> "unspawned"]
    /\ started_volume = << >>
    /\ pc = [t \in Threads |-> "idle"]
    /\ cmd = [t \in Threads |-> "none"]
    /\ ret = [t \in Threads |-> "none"]
    /\ url = [t \in Threads |-> None]
    /\ preserve_state = [t \in Threads |-> FALSE]
    /\ start_pos = [t \in Threads |-> 0]
    /\ cmd_volume = [t \in Threads |-> None]
    /\ mpc = [m \in Procs |-> "unstarted"]
    /\ proc = [m \in Procs |-> None]
    /\ ncmds = 0
    /\ track_end_calls = [p \in Procs |-> 0]
    /\ on_error_calls = [p \in Procs |-> 0]
    /\ torn_down = {}
    /\ cb_faults = {}
    /\ spurious = FALSE
    /\ paused = << >>
    /\ last = "none"

\* ------------------------------------------------------- command plumbing
\* A command is issued on thread t: the call is counted and remembered.
Issue(t, kind) ==
    /\ pc[t] = "idle"
    /\ ncmds < MaxCmds
    /\ ncmds' = ncmds + 1
    /\ last' = IF OthersIdle(t) THEN kind ELSE "mixed"
    /\ paused' = << >>

\* The call returns to its caller: the frame's locals are gone.
Return(t) ==
    /\ pc' = [pc EXCEPT ![t] = "idle"]
    /\ cmd' = [cmd EXCEPT ![t] = "none"]
    /\ ret' = [ret EXCEPT ![t] = "none"]
    /\ url' = [url EXCEPT ![t] = None]
    /\ preserve_state' = [preserve_state EXCEPT ![t] = FALSE]
    /\ start_pos' = [start_pos EXCEPT ![t] = 0]
    /\ cmd_volume' = [cmd_volume EXCEPT ![t] = None]

\* The call enters play_url(url, track, pos, preserve) and blocks on the lock.
EnterPlayUrl(t, kind, u, pos, preserve) ==
    /\ pc' = [pc EXCEPT ![t] = "pu_lock"]
    /\ cmd' = [cmd EXCEPT ![t] = kind]
    /\ ret' = [ret EXCEPT ![t] = "pu_check"]
    /\ url' = [url EXCEPT ![t] = u]
    /\ preserve_state' = [preserve_state EXCEPT ![t] = preserve]
    /\ start_pos' = [start_pos EXCEPT ![t] = pos]
    /\ UNCHANGED cmd_volume

\* The call enters stop_internal(preserve) and will continue at `after`.
EnterStopInternal(t, kind, preserve, after) ==
    /\ pc' = [pc EXCEPT ![t] = "si_flag"]
    /\ cmd' = [cmd EXCEPT ![t] = kind]
    /\ ret' = [ret EXCEPT ![t] = after]
    /\ preserve_state' = [preserve_state EXCEPT ![t] = preserve]
    /\ UNCHANGED << url, start_pos, cmd_volume >>

Goto(t, label) ==
    /\ pc' = [pc EXCEPT ![t] = label]
    /\ UNCHANGED << cmd, ret, url, preserve_state, start_pos, cmd_volume >>

\* ------------------------------------------------------------ play_url
\* The application calls play_url(url, track): start_pos=0, preserve_state=False.
Play(t, u) ==
    /\ Issue(t, "play")
    /\ CanSpawn
    /\ EnterPlayUrl(t, "play", u, 0, FALSE)
    /\ UNCHANGED << engine, lock, settings, procState, started_volume, monitors, observed >>

\* `with self.lock:` blocks until the lock is free, then stop_internal runs.
PlayUrlLock(t) ==
    /\ pc[t] = "pu_lock"
    /\ lock = None
    /\ lock' = t
    /\ Goto(t, "si_flag")
    /\ UNCHANGED << engine, settings, procState, started_volume, monitors, observed, ncmds, paused, last >>

\* the volume of a new AudioPlayer instead of the stored one
VolumeArgumentDefault == DefaultVolume

\* Line 92: the -volume argument of the command line is the stored volume.
VolumeArgument == volume

\* Lines 74-95: without ffplay the call returns (the lock is released and
\* nothing is reported); otherwise the source is recorded, the suppression
\* flag is cleared and the command line is built, with the volume as it is
\* now.
PlayUrlSetSource(t) ==
    /\ pc[t] = "pu_check"
    /\ lock = t
    /\ IF ~ffplay_path
         THEN /\ lock' = None
              /\ Return(t)
              /\ last' = IF last = cmd[t] THEN "unavailable" ELSE last
              /\ UNCHANGED << engine >>
         ELSE /\ current_track' = url[t]
              /\ current_url' = url[t]
              /\ internal_stop' = FALSE
              /\ pc' = [pc EXCEPT ![t] = "pu_spawn"]
              /\ cmd_volume' = [cmd_volume EXCEPT ![t] = VolumeArgument]
              /\ UNCHANGED << process, is_playing, current_time, duration, lock, last,
                              cmd, ret, url, preserve_state, start_pos >>
    /\ UNCHANGED << settings, procState, started_volume, monitors, observed, ncmds, paused >>

\* Lines 106-113: Popen starts ffplay and self.process refers to it.
PlayUrlSpawn(t) ==
    /\ pc[t] = "pu_spawn"
    /\ LET p == UsedPids + 1 IN
         /\ procState' = [procState EXCEPT ![p] = "alive"]
         /\ process' = p
    /\ started_volume' = << cmd_volume[t] >>
    /\ Goto(t, "pu_playing")
    /\ UNCHANGED << current_url, current_track, is_playing, internal_stop,
                    current_time, duration, lock, settings, monitors,
                    track_end_calls, on_error_calls, torn_down, spurious, cb_faults, ncmds, paused, last >>

\* Popen raises (the executable cannot be started): control goes to the
\* except clause of line 124.
PlayUrlSpawnFails(t) ==
    /\ pc[t] = "pu_spawn"
    /\ procState' = [procState EXCEPT ![UsedPids + 1] = "failed"]
    /\ started_volume' = << cmd_volume[t] >>
    /\ Goto(t, "pu_fail")
    /\ UNCHANGED << engine, lock, settings, monitors, observed, ncmds, paused, last >>

\* Lines 115-118.
PlayUrlPlaying(t) ==
    /\ pc[t] = "pu_playing"
    /\ is_playing' = TRUE
    /\ current_time' = start_pos[t]
    /\ Goto(t, "pu_thread")
    /\ UNCHANGED << process, current_url, current_track, internal_stop, duration,
                    lock, settings, procState, started_volume, monitors, observed, ncmds, paused, last >>

\* Lines 121-122: the monitor thread is started, the with block ends and
\* play_url returns.
PlayUrlStartMonitor(t) ==
    /\ pc[t] = "pu_thread"
    /\ mpc' = [mpc EXCEPT ![LastPid] = "bind"]
    /\ lock' = None
    /\ Return(t)
    /\ UNCHANGED << engine, settings, procState, started_volume, proc, observed, ncmds, paused, last >>

\* Lines 124-127: the except clause calls on_error on the command thread,
\* inside the with block.
PlayUrlError(t) ==
    /\ pc[t] = "pu_fail"
    /\ is_playing' = FALSE
    /\ on_error_calls' = [on_error_calls EXCEPT ![LastPid] = @ + 1]
    /\ cb_faults' = cb_faults \cup {"command_thread"}
                       \cup (IF lock = t THEN {"lock_held"} ELSE {})
    /\ lock' = None
    /\ Return(t)
    /\ last' = IF last = cmd[t] THEN "void" ELSE last
    /\ UNCHANGED << process, current_url, current_track, internal_stop, current_time,
                    duration, settings, procState, started_volume, monitors, track_end_calls,
                    torn_down, spurious, ncmds, paused >>

\* --------------------------------------------------------- stop_internal
\* Line 235.
StopInternalFlag(t) ==
    /\ pc[t] = "si_flag"
    /\ internal_stop' = TRUE
    /\ Goto(t, "si_if")
    /\ UNCHANGED << process, current_url, current_track, is_playing, current_time,
                    duration, lock, settings, procState, started_volume, monitors,
                    track_end_calls, on_error_calls, torn_down, spurious, cb_faults, ncmds, paused, last >>

\* Line 237: `if self.process:`.
StopInternalTest(t) ==
    /\ pc[t] = "si_if"
    /\ Goto(t, IF process # None THEN "si_term" ELSE "si_playing")
    /\ UNCHANGED << engine, lock, settings, procState, started_volume, monitors, observed, ncmds, paused, last >>

\* Line 240: self.process is read again and asked to terminate.  A process
\* that has already exited keeps its return code; reading None raises
\* AttributeError, which the bare except of line 245 swallows.
StopInternalTerminate(t) ==
    /\ pc[t] = "si_term"
    /\ IF process = None
         THEN /\ Goto(t, "si_clear")
              /\ UNCHANGED << procState, torn_down >>
         ELSE /\ procState' = [procState EXCEPT ![process] =
                                  IF @ = "alive" THEN "terming" ELSE @]
              /\ torn_down' = IF procState[process] = "exit0" /\ cmd[t] \in {"stop", "seek", "pause"}
                               THEN torn_down \cup {process} ELSE torn_down
              /\ Goto(t, "si_wait")
    /\ paused' = IF cmd[t] = "pause" /\ last = "pause" THEN << process >> ELSE paused
    /\ UNCHANGED << engine, lock, settings, started_volume, monitors, track_end_calls,
                    on_error_calls, spurious, cb_faults, ncmds, last >>

\* self.process.wait() without a timeout: it returns when the process has
\* exited
StopInternalWaitForExit(t) ==
    /\ pc[t] = "si_wait"
    /\ process = None \/ procState[process] \in Dead
    /\ Goto(t, "si_clear")
    /\ UNCHANGED << engine, lock, settings, procState, started_volume, monitors, observed, ncmds, paused, last >>

\* Line 242: self.process.wait(timeout=1) returns once the process it reads
\* has exited, and raises TimeoutExpired if that process is still running.
StopInternalWait(t) ==
    /\ pc[t] = "si_wait"
    /\ Goto(t, IF process = None \/ procState[process] \in Dead
                 THEN "si_clear" ELSE "si_kill")
    /\ UNCHANGED << engine, lock, settings, procState, started_volume, monitors, observed, ncmds, paused, last >>

\* Line 244: self.process.kill().
StopInternalKill(t) ==
    /\ pc[t] = "si_kill"
    /\ IF process = None
         THEN UNCHANGED << procState, torn_down >>
         ELSE /\ procState' = [procState EXCEPT ![process] =
                                  IF @ \in Live THEN "killed" ELSE @]
              /\ UNCHANGED torn_down
    /\ Goto(t, "si_clear")
    /\ UNCHANGED << engine, lock, settings, started_volume, monitors, track_end_calls,
                    on_error_calls, spurious, cb_faults, ncmds, paused, last >>

\* Line 247.
StopInternalClear(t) ==
    /\ pc[t] = "si_clear"
    /\ process' = None
    /\ Goto(t, "si_playing")
    /\ UNCHANGED << current_url, current_track, is_playing, internal_stop, current_time,
                    duration, lock, settings, procState, started_volume, monitors, observed, ncmds, paused, last >>

\* Line 249.
StopInternalNotPlaying(t) ==
    /\ pc[t] = "si_playing"
    /\ is_playing' = FALSE
    /\ Goto(t, "si_reset")
    /\ UNCHANGED << process, current_url, current_track, internal_stop, current_time,
                    duration, lock, settings, procState, started_volume, monitors, observed, ncmds, paused, last >>

\* Lines 251-257, then what follows the call: play_url goes on under its
\* lock, pause has one more statement, stop returns.
StopInternalReset(t) ==
    /\ pc[t] = "si_reset"
    /\ IF preserve_state[t]
         THEN UNCHANGED << current_time, duration >>
         ELSE /\ current_time' = 0
              /\ duration' = 0
    /\ IF ret[t] = "done" THEN Return(t) ELSE Goto(t, ret[t])
    /\ UNCHANGED << process, current_url, current_track, is_playing, internal_stop,
                    lock, settings, procState, started_volume, monitors, observed, ncmds, paused, last >>

\* ------------------------------------------- pause, resume, stop, seek
\* pause() that tears down with preserve_state=False, as stop() does
PauseAsStop(t) ==
    /\ Issue(t, "pause")
    /\ IF is_playing
         THEN EnterStopInternal(t, "pause", FALSE, "p_after")
         ELSE UNCHANGED locals
    /\ UNCHANGED << engine, lock, settings, procState, started_volume, monitors, observed >>

\* Lines 214-218: pause() does nothing unless is_playing.
Pause(t) ==
    /\ Issue(t, "pause")
    /\ IF is_playing
         THEN EnterStopInternal(t, "pause", TRUE, "p_after")
         ELSE UNCHANGED locals
    /\ UNCHANGED << engine, lock, settings, procState, started_volume, monitors, observed >>

\* Line 219: the statement of pause() after stop_internal.
PauseNotPlaying(t) ==
    /\ pc[t] = "p_after"
    /\ is_playing' = FALSE
    /\ Return(t)
    /\ paused' = IF Len(paused) = 1 /\ last = "pause"
                   THEN << paused[1], current_time,
                           IF paused[1] = None THEN 0 ELSE track_end_calls[paused[1]] >>
                   ELSE << >>
    /\ UNCHANGED << process, current_url, current_track, internal_stop, current_time,
                    duration, lock, settings, procState, started_volume, monitors,
                    observed, ncmds, last >>

\* Lines 221-225: resume() restarts the remembered source at the remembered
\* position; the arguments are read before play_url takes the lock.
Resume(t) ==
    /\ pc[t] = "idle"
    /\ ncmds < MaxCmds
    /\ ncmds' = ncmds + 1
    /\ IF ~is_playing /\ current_url # None
         THEN /\ CanSpawn
              /\ EnterPlayUrl(t, "resume", current_url, current_time, TRUE)
              /\ last' = IF OthersIdle(t) THEN "resume" ELSE "mixed"
         ELSE /\ UNCHANGED locals
              /\ last' = IF OthersIdle(t) THEN "void" ELSE "mixed"
    /\ UNCHANGED << engine, lock, settings, procState, started_volume, monitors, observed,
                    paused >>

\* Lines 227-228; close() (lines 289-291) is the same call.
Stop(t) ==
    /\ Issue(t, "stop")
    /\ EnterStopInternal(t, "stop", FALSE, "done")
    /\ UNCHANGED << engine, lock, settings, procState, started_volume, monitors, observed >>

\* Lines 281-287: seek(ms) sets the suppression flag, without the lock, and
\* restarts the remembered source at ms.
Seek(t, ms) ==
    /\ pc[t] = "idle"
    /\ ncmds < MaxCmds
    /\ ncmds' = ncmds + 1
    /\ IF current_url # None
         THEN /\ CanSpawn
              /\ internal_stop' = TRUE
                        /\ EnterPlayUrl(t, "seek", current_url, ms, TRUE)
              /\ last' = IF OthersIdle(t) THEN "seek" ELSE "mixed"
         ELSE /\ UNCHANGED << locals, internal_stop >>
              /\ last' = IF OthersIdle(t) THEN "void" ELSE "mixed"
    /\ paused' = << >>
    /\ UNCHANGED << process, current_url, current_track, is_playing, current_time,
                    duration, lock, settings, procState, started_volume, monitors,
                    track_end_calls, on_error_calls, torn_down, spurious, cb_faults >>

\* ------------------------------------------------------------ set_volume
\* Line 267: int(volume) drops the fraction of the slider's value.
ToInt(h) == h \div 2

\* Lines 266-268: set_volume stores the value; it takes no lock and touches
\* no process.
SetVolume(t, v) ==
    /\ pc[t] = "idle"
    /\ ncmds < MaxCmds
    /\ ncmds' = ncmds + 1
    /\ volume' = ToInt(v)
    /\ UNCHANGED << engine, lock, fixed, procState, started_volume, locals,
                    monitors, observed, paused, last >>

\* ----------------------------------------------------------- set_position
\* set_position(pos) taking the length from get_length()
SetPositionOfLength(t, f) ==
    Seek(t, f * (IF duration # 0 THEN duration ELSE DefaultLength))

\* Lines 276-279: set_position(pos) seeks to that fraction of the parsed
\* duration, and does nothing when no duration has been parsed.
SetPosition(t, f) ==
    IF duration > 0
      THEN Seek(t, f * duration)
      ELSE /\ pc[t] = "idle"
           /\ ncmds < MaxCmds
           /\ ncmds' = ncmds + 1
           /\ UNCHANGED << engine, lock, settings, procState, started_volume, locals,
                           monitors, observed, paused, last >>

\* ------------------------------------------------------ _monitor_process
\* One line of ffplay's stderr, as lines 148-196 classify it: a line without
\* a number, a line that gives the duration, a line that gives the position,
\* and the last two with the token nan somewhere else in the line.
Lines == {<<"nan", 0>>} \cup ({"dur", "nan_dur"} \X Durs)
                       \cup ({"time", "nan_time"} \X Times)

\* a monitor that does not look for the token
HasNanIgnored(line) == FALSE

\* Line 162: `"nan" in line_str.lower()`.
HasNan(line) == line[1] \in {"nan", "nan_dur", "nan_time"}

\* Line 131: the thread reads self.process when it starts to run.  When the
\* attribute is None by then, proc.poll() of line 141 raises AttributeError
\* and the except clause of line 211 ends the thread.
MonitorBind(m) ==
    /\ mpc[m] = "bind"
    /\ proc' = [proc EXCEPT ![m] = process]
    /\ mpc' = [mpc EXCEPT ![m] = IF process = None THEN "done" ELSE "loop"]
    /\ UNCHANGED << engine, lock, settings, procState, started_volume, locals, observed, ncmds, paused, last >>

\* Line 141: `while self.running and proc.poll() is None`.
MonitorPoll(m) ==
    /\ mpc[m] \in {"loop", "continue"}
    /\ mpc' = [mpc EXCEPT ![m] = IF procState[proc[m]] \in Live THEN "read" ELSE "wait"]
    /\ UNCHANGED << engine, lock, settings, procState, started_volume, proc, locals, observed, ncmds, paused, last >>

\* Lines 143-198: read(1) returns the byte that ends a line and the line is
\* handled: a line with nan ends at the continue of line 163, any other line
\* is searched for the duration, while none is known, and for the position.
\* The pipe keeps what ffplay wrote, so the byte can arrive after the
\* process has exited; the next poll() of line 141 then ends the loop.
MonitorLine(m, line) ==
    /\ mpc[m] = "read"
    /\ IF HasNan(line)
         THEN /\ mpc' = [mpc EXCEPT ![m] = "continue"]
              /\ UNCHANGED << duration, current_time >>
         ELSE /\ duration' = IF line[1] \in {"dur", "nan_dur"} /\ duration = 0
                               THEN line[2] ELSE duration
              /\ current_time' = IF line[1] \in {"time", "nan_time"}
                                   THEN line[2] ELSE current_time
              /\ mpc' = [mpc EXCEPT ![m] = "loop"]
    /\ UNCHANGED << process, current_url, current_track, is_playing, internal_stop,
                    lock, settings, procState, started_volume, proc, locals, observed, ncmds, paused, last >>

\* Lines 144-146: read(1) returns nothing once the process is gone.
MonitorEOF(m) ==
    /\ mpc[m] = "read"
    /\ procState[proc[m]] \in Dead
    /\ mpc' = [mpc EXCEPT ![m] = "wait"]
    /\ UNCHANGED << engine, lock, settings, procState, started_volume, proc, locals, observed, ncmds, paused, last >>

\* Lines 204-205: proc.wait() returns when the process has exited.
MonitorWait(m) ==
    /\ mpc[m] = "wait"
    /\ procState[proc[m]] \in Dead
    /\ is_playing' = FALSE
    /\ mpc' = [mpc EXCEPT ![m] = "check"]
    /\ UNCHANGED << process, current_url, current_track, internal_stop, current_time,
                    duration, lock, settings, procState, started_volume, proc, locals, observed,
                    ncmds, paused, last >>

\* Lines 208-209: on_track_end is called on the monitor thread.
MonitorTrackEnd(m) ==
    /\ mpc[m] = "check"
    /\ IF ~internal_stop /\ procState[proc[m]] = "exit0"
         THEN /\ track_end_calls' = [track_end_calls EXCEPT ![proc[m]] = @ + 1]
              /\ spurious' = (spurious \/ proc[m] \in torn_down)
         ELSE UNCHANGED << track_end_calls, spurious >>
    /\ mpc' = [mpc EXCEPT ![m] = "done"]
    /\ UNCHANGED << engine, lock, settings, procState, started_volume, proc, locals,
                    on_error_calls, torn_down, cb_faults, ncmds, paused, last >>

\* ------------------------------------------------------------- processes
\* ffplay -autoexit reaches the end of the stream and exits with status 0.
NaturalExit(p) ==
    /\ procState[p] = "alive"
    /\ procState' = [procState EXCEPT ![p] = "exit0"]
    /\ UNCHANGED << engine, lock, settings, started_volume, locals, monitors, observed, ncmds, paused, last >>

\* A process that was asked to terminate exits, with a non-zero status.
TerminateTakesEffect(p) ==
    /\ procState[p] = "terming"
    /\ procState' = [procState EXCEPT ![p] = "killed"]
    /\ UNCHANGED << engine, lock, settings, started_volume, locals, monitors, observed, ncmds, paused, last >>

\* ffplay exits by itself with a non-zero status: the source cannot be
\* opened or decoded, or the process is killed from outside the engine.
FaultExit(p) ==
    /\ procState[p] = "alive"
    /\ procState' = [procState EXCEPT ![p] = "fault"]
    /\ UNCHANGED << engine, lock, settings, started_volume, locals, monitors, observed,
                    ncmds, paused, last >>

\* ---------------------------------------------------------- specification
Command(t) ==
    \/ \E u \in Urls : Play(t, u)
    \/ Pause(t)
    \/ Resume(t)
    \/ Stop(t)
    \/ \E ms \in Times : Seek(t, ms)

Step(t) ==
    \/ PlayUrlLock(t)
    \/ PlayUrlSetSource(t)
    \/ PlayUrlSpawn(t)
    \/ PlayUrlSpawnFails(t)
    \/ PlayUrlPlaying(t)
    \/ PlayUrlStartMonitor(t)
    \/ PlayUrlError(t)
    \/ StopInternalFlag(t)
    \/ StopInternalTest(t)
    \/ StopInternalTerminate(t)
    \/ StopInternalWait(t)
    \/ StopInternalKill(t)
    \/ StopInternalClear(t)
    \/ StopInternalNotPlaying(t)
    \/ StopInternalReset(t)
    \/ PauseNotPlaying(t)

Monitor(m) ==
    \/ MonitorBind(m)
    \/ MonitorPoll(m)
    \/ \E line \in Lines : MonitorLine(m, line)
    \/ MonitorEOF(m)
    \/ MonitorWait(m)
    \/ MonitorTrackEnd(m)

Next ==
    \/ \E t \in Threads : Command(t)
    \/ \E t \in Threads : Step(t)
    \/ \E m \in Procs : Monitor(m)
    \/ \E p \in Procs : NaturalExit(p)
    \/ \E p \in Procs : TerminateTakesEffect(p)

Spec == Init /\ [][Next]_vars

\* The engine after one play_url(url, track) has returned: ffplay is
\* running, its monitor thread has been started and no command is running.
InitBusy ==
    /\ VlcIdle
    /\ FletIdle
    /\ MainIdle
    /\ process = 1
    /\ current_url = 1
    /\ current_track = 1
    /\ is_playing = TRUE
    /\ internal_stop = FALSE
    /\ current_time = 0
    /\ duration = 0
    /\ lock = None
    /\ volume = DefaultVolume
    /\ ffplay_path = TRUE
    /\ procState = [p \in Procs |-> IF p = 1 THEN "alive" ELSE "unspawned"]
    /\ started_volume = << DefaultVolume >>
    /\ pc = [t \in Threads |-> "idle"]
    /\ cmd = [t \in Threads |-> "none"]
    /\ ret = [t \in Threads |-> "none"]
    /\ url = [t \in Threads |-> None]
    /\ preserve_state = [t \in Threads |-> FALSE]
    /\ start_pos = [t \in Threads |-> 0]
    /\ cmd_volume = [t \in Threads |-> None]
    /\ mpc = [m \in Procs |-> IF m = 1 THEN "bind" ELSE "unstarted"]
    /\ proc = [m \in Procs |-> None]
    /\ ncmds = 0
    /\ track_end_calls = [p \in Procs |-> 0]
    /\ on_error_calls = [p \in Procs |-> 0]
    /\ torn_down = {}
    /\ cb_faults = {}
    /\ spurious = FALSE
    /\ paused = << >>
    /\ last = "play"

\* The race of play_url with stop: from the playing engine, thread 1 issues
\* play_url, thread 2 issues stop, every Popen succeeds, and the lines ffplay
\* prints meanwhile are the ones the monitor discards.
StepRace(t) ==
    \/ PlayUrlLock(t)
    \/ PlayUrlSetSource(t)
    \/ PlayUrlSpawn(t)
    \/ PlayUrlPlaying(t)
    \/ PlayUrlStartMonitor(t)
    \/ StopInternalFlag(t)
    \/ StopInternalTest(t)
    \/ StopInternalTerminate(t)
    \/ StopInternalWait(t)
    \/ StopInternalKill(t)
    \/ StopInternalClear(t)
    \/ StopInternalNotPlaying(t)
    \/ StopInternalReset(t)

MonitorRace(m) ==
    \/ MonitorBind(m)
    \/ MonitorPoll(m)
    \/ MonitorLine(m, <<"nan", 0>>)
    \/ MonitorEOF(m)
    \/ MonitorWait(m)
    \/ MonitorTrackEnd(m)

NextRace ==
    \/ \E u \in Urls : Play(1, u)
    \/ Stop(2)
    \/ \E t \in Threads : StepRace(t)
    \/ \E m \in Procs : MonitorRace(m)
    \/ \E p \in Procs : NaturalExit(p)
    \/ \E p \in Procs : TerminateTakesEffect(p)

SpecRace == InitBusy /\ [][NextRace]_vars

\* The engine driven from one thread, each command returning before the
\* next one is issued, while the monitor threads and the ffplay processes
\* run on their own and ffplay may fail by itself.
NextFault ==
    \/ Command(1)
    \/ Step(1)
    \/ \E m \in Procs : Monitor(m)
    \/ \E p \in Procs : NaturalExit(p)
    \/ \E p \in Procs : FaultExit(p)
    \/ \E p \in Procs : TerminateTakesEffect(p)

SpecFault == Init /\ [][NextFault]_vars

\* The engine driven from one thread that also sets the volume between two
\* commands.  The tracks are longer than the session, so ffplay exits only
\* when the engine terminates it, and the lines it prints are the ones the
\* monitor discards.
NextVolume ==
    \/ Command(1)
    \/ \E v \in Volumes : SetVolume(1, v)
    \/ Step(1)
    \/ \E m \in Procs : MonitorRace(m)
    \/ \E p \in Procs : TerminateTakesEffect(p)

SpecVolume == Init /\ [][NextVolume]_vars

\* The engine driven from one thread that also moves the seek bar, to its
\* start or to its end.
NextPosition ==
    \/ Command(1)
    \/ \E f \in {0, 1} : SetPosition(1, f)
    \/ Step(1)
    \/ \E m \in Procs : Monitor(m)
    \/ \E p \in Procs : TerminateTakesEffect(p)

SpecPosition == Init /\ [][NextPosition]_vars

\* The engine driven from one thread that plays and pauses a source and,
\* once its duration is known, seeks beyond it, while ffplay ends or fails
\* by itself.
NextBeyond ==
    \/ \E u \in Urls : Play(1, u)
    \/ Pause(1)
    \/ duration # 0 /\ Seek(1, duration + 1)
    \/ Step(1)
    \/ \E m \in Procs : Monitor(m)
    \/ \E p \in Procs : NaturalExit(p)
    \/ \E p \in Procs : FaultExit(p)
    \/ \E p \in Procs : TerminateTakesEffect(p)

SpecBeyond == Init /\ [][NextBeyond]_vars

\* The engine driven from one thread, scheduled fairly, while ffplay ends
\* by itself or not at all: a process that was asked to terminate may go
\* on running until it is killed.
NextTeardown ==
    \/ Command(1)
    \/ Step(1)
    \/ \E m \in Procs : MonitorRace(m)
    \/ \E p \in Procs : NaturalExit(p)
    \/ \E p \in Procs : TerminateTakesEffect(p)

SpecTeardown == Init /\ [][NextTeardown]_vars /\ WF_vars(Step(1))

\* ======================================================= src/player.py
\* The VLC engine.  play_url and stop hold self.lock from their first to
\* their last statement, and ffmpeg_process and temp_file are read and
\* written only there: the statements between two points where the thread
\* waits or writes an attribute that is read without the lock are one step.
\* line 156: running is set at construction and never again
running == TRUE

VlcReturn(t) ==
    /\ vpc' = [vpc EXCEPT ![t] = "idle"]
    /\ vcall' = [vcall EXCEPT ![t] = None]
    /\ vurl' = [vurl EXCEPT ![t] = "none"]

VlcGoto(t, label) ==
    /\ vpc' = [vpc EXCEPT ![t] = label]
    /\ UNCHANGED << vcall, vurl >>

\* the calls of the other threads whose ffmpeg is running now
Converting(t) ==
    {vcall[o] : o \in {o \in Threads \ {t} :
        /\ vpc[o] = "vp_wait"
        /\ ffmpeg_process # None
        /\ ffmpegState[ffmpeg_process] = "running"}}

\* Lines 217-228, _stop_ffmpeg: terminate, wait two seconds, kill.
StoppedFfmpeg ==
    IF ffmpeg_process # None /\ ffmpegState[ffmpeg_process] = "running"
      THEN [ffmpegState EXCEPT ![ffmpeg_process] = "killed"]
      ELSE ffmpegState

\* Lines 208-215, _cleanup_temp: os.unlink can fail while the VLC player
\* has the file open; temp_file is cleared all the same.
TempExists == temp_file # None /\ temp_file \in disk
InUse == Len(media) = 2 /\ media[1] = "temp" /\ media[2] = temp_file
               /\ playerState \in {"playing", "paused"}
UnlinkOutcomes == IF InUse THEN BOOLEAN ELSE {TRUE}
CleanedDisk(unlinked) == IF TempExists /\ unlinked THEN disk \ {temp_file} ELSE disk
CleanedTempFile == IF TempExists THEN None ELSE temp_file

\* ------------------------------------------------------------- _init_vlc
\* Lines 167-170: vlc.Instance() gives an instance, or None or an exception
\* when libvlc is missing.
VlcInitInstance(ok) ==
    /\ ipc = "start"
    /\ instance' = ok
    /\ ipc' = IF ok THEN "player" ELSE "done"
    /\ UNCHANGED << player, vlc_is_playing, vlc_current_track, ffmpeg_process,
                    temp_file, vlc_lock, vlcWorld, vlcLocals, vlcObserved, ffplay, app >>

\* Lines 172-192: under the lock the media player is created and the event
\* callbacks are attached.
VlcInitPlayer(ok) ==
    /\ ipc = "player"
    /\ vlc_lock = None
    /\ player' = ok
    /\ ipc' = "done"
    /\ UNCHANGED << instance, vlc_is_playing, vlc_current_track, ffmpeg_process,
                    temp_file, vlc_lock, vlcWorld, vlcLocals, vlcObserved, ffplay, app >>

\* -------------------------------------------------------------- play_url
VlcPlay(t, u) ==
    /\ vpc[t] = "idle"
    /\ ncalls < MaxCalls
    /\ ncalls' = ncalls + 1
    /\ vpc' = [vpc EXCEPT ![t] = "vp_lock"]
    /\ vcall' = [vcall EXCEPT ![t] = ncalls + 1]
    /\ vurl' = [vurl EXCEPT ![t] = u]
    /\ superseded' = superseded \cup Converting(t)
    /\ UNCHANGED << vlcEngine, vlc_lock, vlcWorld, ipc, cancelled, conv_failed,
                    started, events, ffplay, app >>

\* Lines 231-248: the lock is taken, a previous ffmpeg is stopped and the
\* previous temporary file removed; then the kind of source decides.
VlcPlayUrlLock(t) ==
    /\ vpc[t] = "vp_lock"
    /\ vlc_lock = None
    /\ vlc_lock' = t
    /\ ffmpegState' = StoppedFfmpeg
    /\ ffmpeg_process' = None
    /\ \E unlinked \in UnlinkOutcomes : disk' = CleanedDisk(unlinked)
    /\ temp_file' = CleanedTempFile
    /\ VlcGoto(t, CASE vurl[t] = "stream" -> "vp_direct"
                    [] vurl[t] = "missing" -> "vp_missing"
                    [] OTHER -> "vp_convert")
    /\ UNCHANGED << instance, player, vlc_is_playing, vlc_current_track, media,
                    playerState, ipc, vlcObserved, ffplay, app >>

\* Lines 245-248: the local file does not exist.
VlcFileNotFound(t) ==
    /\ vpc[t] = "vp_missing"
    /\ vlc_is_playing' = FALSE
    /\ vlc_lock' = None
    /\ VlcReturn(t)
    /\ UNCHANGED << instance, player, vlc_current_track, ffmpeg_process, temp_file,
                    vlcWorld, ipc, vlcObserved, ffplay, app >>

\* Lines 253-290: a fresh temporary name is chosen and ffmpeg is started.
VlcConvertStart(t) ==
    /\ vpc[t] = "vp_convert"
    /\ temp_file' = vcall[t]
    /\ ffmpeg_process' = vcall[t]
    /\ ffmpegState' = [ffmpegState EXCEPT ![vcall[t]] = "running"]
    /\ VlcGoto(t, "vp_wait")
    /\ UNCHANGED << instance, player, vlc_is_playing, vlc_current_track, vlc_lock,
                    disk, media, playerState, ipc, vlcObserved, ffplay, app >>

\* Lines 253, 328-331: Popen raises FileNotFoundError, ffmpeg is missing.
VlcConvertNoFfmpeg(t) ==
    /\ vpc[t] = "vp_convert"
    /\ temp_file' = vcall[t]
    /\ conv_failed' = conv_failed \cup {vcall[t]}
    /\ VlcGoto(t, "vp_fallback")
    /\ UNCHANGED << instance, player, vlc_is_playing, vlc_current_track, vlc_lock,
                    ffmpeg_process, vlcWorld, ipc, ncalls, cancelled, superseded,
                    started, events, ffplay, app >>

\* Lines 297-321: wait() returns because ffmpeg has exited.  With status 0
\* and the file in place the VLC player is given the file and started, if
\* VLC is initialised, and otherwise play_url returns; any other outcome
\* goes on to the fallback.
VlcWaitReturns(t) ==
    /\ vpc[t] = "vp_wait"
    /\ ffmpegState[ffmpeg_process] \in {"exit0", "failed", "killed"}
    /\ IF ffmpegState[ffmpeg_process] = "exit0" /\ temp_file \in disk
         THEN IF instance /\ player
                THEN /\ media' = << "temp", vcall[t] >>
                     /\ playerState' = "playing"
                     /\ started' = started \cup {vcall[t]}
                     /\ VlcGoto(t, "vp_started")
                     /\ UNCHANGED << vlc_lock, conv_failed >>
                ELSE /\ vlc_lock' = None
                     /\ VlcReturn(t)
                     /\ UNCHANGED << media, playerState, started, conv_failed >>
         ELSE /\ conv_failed' = conv_failed \cup {vcall[t]}
              /\ VlcGoto(t, "vp_fallback")
              /\ UNCHANGED << vlc_lock, media, playerState, started >>
    /\ UNCHANGED << vlcEngine, ffmpegState, disk, ipc, ncalls, cancelled, superseded,
                    events, ffplay, app >>

\* Lines 322-324: wait() raises TimeoutExpired after 30 seconds and
\* _stop_ffmpeg kills the process.
VlcWaitTimeout(t) ==
    /\ vpc[t] = "vp_wait"
    /\ ffmpegState[ffmpeg_process] = "running"
    /\ ffmpegState' = StoppedFfmpeg
    /\ ffmpeg_process' = None
    /\ conv_failed' = conv_failed \cup {vcall[t]}
    /\ VlcGoto(t, "vp_fallback")
    /\ UNCHANGED << instance, player, vlc_is_playing, vlc_current_track, temp_file,
                    vlc_lock, disk, media, playerState, ipc, ncalls, cancelled,
                    superseded, started, events, ffplay, app >>

\* Lines 335-341: the fallback is skipped only when running is False; the
\* temporary file is removed and the file itself becomes the URL.
VlcFallback(t) ==
    /\ vpc[t] = "vp_fallback"
    /\ IF ~running
         THEN /\ vlc_lock' = None
              /\ VlcReturn(t)
              /\ UNCHANGED << disk, temp_file >>
         ELSE /\ \E unlinked \in UnlinkOutcomes : disk' = CleanedDisk(unlinked)
              /\ temp_file' = CleanedTempFile
              /\ VlcGoto(t, "vp_direct")
              /\ UNCHANGED vlc_lock
    /\ UNCHANGED << instance, player, vlc_is_playing, vlc_current_track, ffmpeg_process,
                    ffmpegState, media, playerState, ipc, vlcObserved, ffplay, app >>

\* Lines 344-352: VLC loads the URL and plays it; when VLC is not
\* initialised play_url prints a message and returns.
VlcDirect(t) ==
    /\ vpc[t] = "vp_direct"
    /\ IF instance /\ player
         THEN /\ media' = << "direct", vcall[t] >>
              /\ playerState' = "playing"
              /\ started' = started \cup {vcall[t]}
              /\ VlcGoto(t, "vp_started")
              /\ UNCHANGED vlc_lock
         ELSE /\ vlc_lock' = None
              /\ VlcReturn(t)
              /\ UNCHANGED << media, playerState, started >>
    /\ UNCHANGED << vlcEngine, ffmpegState, disk, ipc, ncalls, cancelled, superseded,
                    conv_failed, events, ffplay, app >>

\* Lines 346-349, 359-364: a call into libvlc raises; the outer except
\* clause clears is_playing.
VlcDirectRaises(t) ==
    /\ vpc[t] = "vp_direct"
    /\ instance /\ player
    /\ vlc_is_playing' = FALSE
    /\ vlc_lock' = None
    /\ VlcReturn(t)
    /\ UNCHANGED << instance, player, vlc_current_track, ffmpeg_process, temp_file,
                    vlcWorld, ipc, vlcObserved, ffplay, app >>

\* Lines 310-314 and 354-357: after the short sleep the track is recorded
\* and is_playing set; the with block ends.
VlcStarted(t) ==
    /\ vpc[t] = "vp_started"
    /\ vlc_current_track' = vcall[t]
    /\ vlc_is_playing' = TRUE
    /\ vlc_lock' = None
    /\ VlcReturn(t)
    /\ UNCHANGED << instance, player, ffmpeg_process, temp_file, vlcWorld, ipc,
                    vlcObserved, ffplay, app >>

\* ------------------------------------------------------------------ stop
VlcStop(t) ==
    /\ vpc[t] = "idle"
    /\ VlcGoto(t, "vs_lock")
    /\ cancelled' = cancelled \cup Converting(t)
    /\ UNCHANGED << vlcEngine, vlc_lock, vlcWorld, ipc, ncalls, superseded,
                    conv_failed, started, events, ffplay, app >>

\* Lines 387-391: under the lock ffmpeg is stopped, the temporary file is
\* removed and the VLC player is stopped.
VlcStopLock(t) ==
    /\ vpc[t] = "vs_lock"
    /\ vlc_lock = None
    /\ vlc_lock' = t
    /\ ffmpegState' = StoppedFfmpeg
    /\ ffmpeg_process' = None
    /\ \E unlinked \in UnlinkOutcomes : disk' = CleanedDisk(unlinked)
    /\ temp_file' = CleanedTempFile
    /\ playerState' = IF player THEN "stopped" ELSE playerState
    /\ VlcGoto(t, "vs_done")
    /\ UNCHANGED << instance, player, vlc_is_playing, vlc_current_track, media, ipc,
                    vlcObserved, ffplay, app >>

\* Line 392.
VlcStopDone(t) ==
    /\ vpc[t] = "vs_done"
    /\ vlc_is_playing' = FALSE
    /\ vlc_lock' = None
    /\ VlcReturn(t)
    /\ UNCHANGED << instance, player, vlc_current_track, ffmpeg_process, temp_file,
                    vlcWorld, ipc, vlcObserved, ffplay, app >>

\* --------------------------------------------------------- pause, resume
\* Lines 376-378: pause() acts when the VLC player is playing.
VlcPause(t) ==
    /\ vpc[t] = "idle"
    /\ player /\ playerState = "playing"
    /\ playerState' = "paused"
    /\ VlcGoto(t, "vpa_done")
    /\ UNCHANGED << vlcEngine, vlc_lock, ffmpegState, disk, media, ipc, vlcObserved,
                    ffplay, app >>

\* Line 379.
VlcPauseDone(t) ==
    /\ vpc[t] = "vpa_done"
    /\ vlc_is_playing' = FALSE
    /\ VlcReturn(t)
    /\ UNCHANGED << instance, player, vlc_current_track, ffmpeg_process, temp_file,
                    vlc_lock, vlcWorld, ipc, vlcObserved, ffplay, app >>

\* Lines 381-383: resume() acts when the VLC player is not playing and
\* starts whatever media it has.
VlcResume(t) ==
    /\ vpc[t] = "idle"
    /\ player /\ playerState # "playing"
    /\ playerState' = IF media = << >> THEN playerState ELSE "playing"
    /\ VlcGoto(t, "vre_done")
    /\ UNCHANGED << vlcEngine, vlc_lock, ffmpegState, disk, media, ipc, vlcObserved,
                    ffplay, app >>

\* Line 384.
VlcResumeDone(t) ==
    /\ vpc[t] = "vre_done"
    /\ vlc_is_playing' = TRUE
    /\ VlcReturn(t)
    /\ UNCHANGED << instance, player, vlc_current_track, ffmpeg_process, temp_file,
                    vlc_lock, vlcWorld, ipc, vlcObserved, ffplay, app >>

\* ------------------------------------------------------ ffmpeg and libvlc
\* ffmpeg creates its output file and fills it.
FfmpegWrites(c) ==
    /\ ffmpegState[c] = "running"
    /\ c \notin disk
    /\ disk' = disk \cup {c}
    /\ UNCHANGED << vlcEngine, vlc_lock, ffmpegState, media, playerState, ipc,
                    vlcLocals, vlcObserved, ffplay, app >>

\* ffmpeg finishes the conversion: status 0 and the complete file.
FfmpegExit0(c) ==
    /\ ffmpegState[c] = "running"
    /\ ffmpegState' = [ffmpegState EXCEPT ![c] = "exit0"]
    /\ disk' = disk \cup {c}
    /\ UNCHANGED << vlcEngine, vlc_lock, media, playerState, ipc, vlcLocals,
                    vlcObserved, ffplay, app >>

\* ffmpeg gives up with a non-zero status.
FfmpegFails(c) ==
    /\ ffmpegState[c] = "running"
    /\ ffmpegState' = [ffmpegState EXCEPT ![c] = "failed"]
    /\ UNCHANGED << vlcEngine, vlc_lock, disk, media, playerState, ipc, vlcLocals,
                    vlcObserved, ffplay, app >>

\* Lines 204-206: MediaPlayerEndReached; _on_vlc_end starts a thread that
\* calls on_track_end.
VlcEndReached ==
    /\ playerState = "playing"
    /\ playerState' = "ended"
    /\ events' = events \cup {<< media[2], "end" >>}
    /\ UNCHANGED << vlcEngine, vlc_lock, ffmpegState, disk, media, ipc, vlcLocals,
                    ncalls, cancelled, superseded, conv_failed, started, ffplay, app >>

\* Lines 199-202: MediaPlayerEncounteredError; _on_vlc_error starts a
\* thread that calls on_error.
VlcEncounteredError ==
    /\ playerState = "playing"
    /\ playerState' = "error"
    /\ events' = events \cup {<< media[2], "error" >>}
    /\ UNCHANGED << vlcEngine, vlc_lock, ffmpegState, disk, media, ipc, vlcLocals,
                    ncalls, cancelled, superseded, conv_failed, started, ffplay, app >>

VlcCommand(t) ==
    \/ \E u \in Sources : VlcPlay(t, u)
    \/ VlcStop(t)
    \/ VlcPause(t)
    \/ VlcResume(t)

VlcStep(t) ==
    \/ VlcPlayUrlLock(t)
    \/ VlcFileNotFound(t)
    \/ VlcConvertStart(t)
    \/ VlcConvertNoFfmpeg(t)
    \/ VlcWaitReturns(t)
    \/ VlcWaitTimeout(t)
    \/ VlcFallback(t)
    \/ VlcDirect(t)
    \/ VlcDirectRaises(t)
    \/ VlcStarted(t)
    \/ VlcStopLock(t)
    \/ VlcStopDone(t)
    \/ VlcPauseDone(t)
    \/ VlcResumeDone(t)

NextVlc ==
    \/ \E ok \in BOOLEAN : VlcInitInstance(ok)
    \/ \E ok \in BOOLEAN : VlcInitPlayer(ok)
    \/ \E t \in Threads : VlcCommand(t)
    \/ \E t \in Threads : VlcStep(t)
    \/ \E c \in Calls : FfmpegWrites(c)
    \/ \E c \in Calls : FfmpegExit0(c)
    \/ \E c \in Calls : FfmpegFails(c)
    \/ VlcEndReached
    \/ VlcEncounteredError

\* ffplay_path belongs to the other engine
InitVlc == Init /\ ffplay_path

SpecVlc == InitVlc /\ [][NextVlc]_vars

\* ==================================================== src/src/player.py
\* The flet engine's position tracking.  Positions are milliseconds, the
\* clock is time.time() in seconds.  The timer the polling loop falls back
\* to when the backend returns no position (_start_time) is left out.
\* a position as flet reports it, a Duration object
Samples == [seconds : {0, 2, 3}, milliseconds : {0, 1}]

\* Lines 67-74 and 140-146: the components are summed up to milliseconds.
DurationMs(d) == d.seconds * 1000 + d.milliseconds

\* a filter that lets every sample through
SuspiciousNever(ms) == FALSE

\* Lines 77-78 and 150-151: a sample of 0 while the position is beyond two
\* seconds is dropped unless a seek was recent; _last_seek_time is read
\* with getattr and its default.
Suspicious(ms) ==
    /\ ms = 0
    /\ current_position > FlinchThreshold
    /\ ~(clock - LastSeekTime < GraceWindow)

\* Lines 61-83: flet reports a position, _on_position_changed runs.
OnPositionChanged(d) ==
    /\ current_position' = IF Suspicious(DurationMs(d)) THEN current_position
                                                       ELSE DurationMs(d)
    /\ last_sample' = << DurationMs(d), ~Suspicious(DurationMs(d)) >>
    /\ UNCHANGED << flet_is_playing, monitoring, seek_task, clock, seek_at,
                    ffplay, vlc, main >>

\* Lines 136-161: the polling loop started by play_url gets a position.
MonitorLoopPosition(d) ==
    /\ monitoring
    /\ current_position' = IF Suspicious(DurationMs(d)) THEN current_position
                                                       ELSE DurationMs(d)
    /\ last_sample' = << DurationMs(d), ~Suspicious(DurationMs(d)) >>
    /\ UNCHANGED << flet_is_playing, monitoring, seek_task, clock, seek_at,
                    ffplay, vlc, main >>

\* Lines 215-223: the task of play_url sets is_playing and starts the
\* polling loop; the position is left as it was.
FletPlayAsync ==
    /\ flet_is_playing' = TRUE
    /\ monitoring' = TRUE
    /\ UNCHANGED << current_position, seek_task, clock, seek_at, last_sample,
                    ffplay, vlc, main >>

\* Lines 252-257.
FletResume ==
    /\ flet_is_playing' = TRUE
    /\ seek_at' = << clock >>
    /\ UNCHANGED << current_position, monitoring, seek_task, clock, last_sample,
                    ffplay, vlc, main >>

\* Lines 283-292: seek(ms) hands _seek_async to the event loop.
FletSeek(h) ==
    /\ seek_task = << >>
    /\ seek_task' = << ToInt(h) >>
    /\ seek_at' = << clock >>
    /\ UNCHANGED << current_position, flet_is_playing, monitoring, clock,
                    last_sample, ffplay, vlc, main >>

\* Lines 285-290: the backend has sought and the position is set to int(ms).
FletSeekAsync ==
    /\ seek_task # << >>
    /\ current_position' = seek_task[1]
    /\ seek_task' = << >>
    /\ UNCHANGED << flet_is_playing, monitoring, clock, seek_at, last_sample,
                    ffplay, vlc, main >>

\* a second passes
Tick ==
    /\ clock < GraceWindow + MaxTicks
    /\ clock' = clock + 1
    /\ UNCHANGED << current_position, flet_is_playing, monitoring, seek_task,
                    seek_at, last_sample, ffplay, vlc, main >>

NextFlet ==
    \/ \E d \in Samples : OnPositionChanged(d)
    \/ \E d \in Samples : MonitorLoopPosition(d)
    \/ FletPlayAsync
    \/ FletResume
    \/ \E h \in {0, 6001} : FletSeek(h)
    \/ FletSeekAsync
    \/ Tick

SpecFlet == InitVlc /\ [][NextFlet]_vars

\* =========================================== the application, src/src/main.py
\* 0 <= i < len(q), for the 0-based index i of Python
ValidIndex(i, q) == 0 <= i /\ i < Len(q)

\* q.pop(i)
Pop(q, i) == SubSeq(q, 1, i) \o SubSeq(q, i + 2, Len(q))

\* random.shuffle(q): any order of the same entries
Shuffled(q) == {[i \in 1..Len(q) |-> q[f[i]]] : f \in Permutations(1..Len(q))}

\* Lines 1606-1631, _play_track(track, is_retry): a call that is not a retry
\* resets the retry counter; then the stream URL is looked up and play_url of
\* the flet engine records the track (src/src/player.py, line 104) and, when
\* it raises, starts a thread for on_error (line 236).  Without a URL the
\* call returns before play_url.
PlayTrack(track, is_retry) ==
    /\ current_retry_count' = IF is_retry THEN current_retry_count ELSE 0
    /\ issued' = << track, is_retry >>
    /\ \E outcome \in {"plays", "raises", "no_url"} :
         /\ outcome = "raises" => nerrors < MaxErrors
         /\ flet_current_track' = IF outcome = "no_url" THEN flet_current_track
                                                        ELSE track
         /\ error_threads' = error_threads + (IF outcome = "raises" THEN 1 ELSE 0)
         /\ nerrors' = nerrors + (IF outcome = "raises" THEN 1 ELSE 0)
         /\ auto_plays' = IF ~is_retry THEN 0
                          ELSE auto_plays + (IF outcome = "no_url" THEN 0 ELSE 1)

\* the handler returns without calling _play_track
NoPlay ==
    /\ issued' = << >>
    /\ UNCHANGED << current_retry_count, flet_current_track, error_threads,
                    nerrors, auto_plays >>

\* Lines 1560-1583, _play_track_from_list: the queue becomes the one track.
PlayTrackFromList(track) ==
    /\ queue' = << track >>
    /\ current_track_index' = 0
    /\ PlayTrack(track, FALSE)
    /\ UNCHANGED << shuffle_enabled, loop_mode, original_queue, sleeping,
                    out_of_range, ffplay, vlc, flet >>

\* Lines 1587-1593, the thread of _on_player_error: the counter is tested
\* and incremented, then the thread sleeps for a second.
ErrorTaskCount ==
    /\ error_threads > 0
    /\ error_threads' = error_threads - 1
    /\ IF current_retry_count < MaxRetries
         THEN /\ current_retry_count' = current_retry_count + 1
              /\ sleeping' = sleeping + 1
         ELSE UNCHANGED << current_retry_count, sleeping >>
    /\ issued' = << >>
    /\ UNCHANGED << queue, current_track_index, shuffle_enabled, loop_mode,
                    original_queue, flet_current_track, auto_plays, nerrors,
                    out_of_range, ffplay, vlc, flet >>

\* Lines 1595-1599: after the sleep the thread reads the engine's
\* current_track and plays it again.
ErrorTaskRetry ==
    /\ sleeping > 0
    /\ sleeping' = sleeping - 1
    /\ IF flet_current_track # None
         THEN PlayTrack(flet_current_track, TRUE)
         ELSE NoPlay
    /\ UNCHANGED << queue, current_track_index, shuffle_enabled, loop_mode,
                    original_queue, out_of_range, ffplay, vlc, flet >>

\* Lines 1917-1927, _toggle_shuffle: the index is left as it is.
ToggleShuffle ==
    /\ shuffle_enabled' = ~shuffle_enabled
    /\ IF ~shuffle_enabled
         THEN /\ original_queue' = queue
              /\ queue' \in Shuffled(queue)
         ELSE /\ queue' = IF original_queue # << >> THEN original_queue ELSE queue
              /\ UNCHANGED original_queue
    /\ NoPlay
    /\ UNCHANGED << current_track_index, loop_mode, sleeping, out_of_range,
                    ffplay, vlc, flet >>

\* Lines 1942-1955, _toggle_loop.
ToggleLoop ==
    /\ loop_mode' = CASE loop_mode = "off" -> "all"
                      [] loop_mode = "all" -> "one"
                      [] OTHER -> "off"
    /\ NoPlay
    /\ UNCHANGED << queue, current_track_index, shuffle_enabled, original_queue,
                    sleeping, out_of_range, ffplay, vlc, flet >>

\* Lines 1973-2008, _next_track: the handler of on_track_end and of the
\* next button.
NextTrack ==
    /\ IF loop_mode = "loop_one" /\ ValidIndex(current_track_index, queue)
         THEN /\ PlayTrack(queue[current_track_index + 1], FALSE)
              /\ UNCHANGED << queue, current_track_index >>
         ELSE IF shuffle_enabled /\ ValidIndex(current_track_index, queue)
         THEN LET q == Pop(queue, current_track_index)
                  i == IF current_track_index >= Len(q)
                         THEN (IF Len(q) - 1 > 0 THEN Len(q) - 1 ELSE 0)
                         ELSE current_track_index
              IN  /\ IF Len(q) = 0 /\ loop_mode = "loop_all" /\ original_queue # << >>
                       THEN /\ queue' \in Shuffled(original_queue)
                            /\ current_track_index' = 0
                       ELSE /\ queue' = q
                            /\ current_track_index' = i
                  /\ IF ValidIndex(current_track_index', queue')
                       THEN PlayTrack(queue'[current_track_index' + 1], FALSE)
                       ELSE NoPlay
         ELSE IF current_track_index < Len(queue) - 1
         THEN /\ current_track_index' = current_track_index + 1
              /\ UNCHANGED queue
              /\ IF ValidIndex(current_track_index', queue)
                   THEN PlayTrack(queue[current_track_index' + 1], FALSE)
                   ELSE NoPlay
         ELSE IF loop_mode = "loop_all"
         THEN /\ current_track_index' = 0
              /\ UNCHANGED queue
              /\ IF ValidIndex(0, queue) THEN PlayTrack(queue[1], FALSE) ELSE NoPlay
         ELSE /\ UNCHANGED << queue, current_track_index >>
              /\ NoPlay
    /\ UNCHANGED << shuffle_enabled, loop_mode, original_queue, sleeping,
                    out_of_range, ffplay, vlc, flet >>

\* Lines 2010-2013, _add_to_queue.
AddToQueue(track) ==
    /\ Len(queue) < MaxQueue
    /\ queue' = Append(queue, track)
    /\ NoPlay
    /\ UNCHANGED << current_track_index, shuffle_enabled, loop_mode,
                    original_queue, sleeping, out_of_range, ffplay, vlc, flet >>

\* Lines 2140-2161, _remove_from_queue(index): when the current entry is
\* removed the entry that took its place is played; when there is none,
\* queue[current_track_index] raises IndexError, which the handler catches.
RemoveFromQueue(index) ==
    /\ IF ValidIndex(index, queue)
         THEN LET q == Pop(queue, index) IN
              /\ queue' = q
              /\ current_track_index' = IF index < current_track_index
                                          THEN current_track_index - 1
                                          ELSE current_track_index
              /\ IF index = current_track_index /\ q # << >>
                   THEN IF ValidIndex(current_track_index, q)
                          THEN /\ PlayTrack(q[current_track_index + 1], FALSE)
                               /\ UNCHANGED out_of_range
                          ELSE /\ NoPlay
                               /\ out_of_range' = TRUE
                   ELSE /\ NoPlay
                        /\ UNCHANGED out_of_range
         ELSE /\ NoPlay
              /\ UNCHANGED << queue, current_track_index, out_of_range >>
    /\ UNCHANGED << shuffle_enabled, loop_mode, original_queue, sleeping,
                    ffplay, vlc, flet >>

\* Lines 2163-2169, _clear_queue.
ClearQueue ==
    /\ queue' = << >>
    /\ current_track_index' = -1
    /\ NoPlay
    /\ UNCHANGED << shuffle_enabled, loop_mode, original_queue, sleeping,
                    out_of_range, ffplay, vlc, flet >>

\* Lines 2171-2178, _play_from_queue(index).
PlayFromQueue(index) ==
    /\ IF ValidIndex(index, queue)
         THEN /\ current_track_index' = index
              /\ PlayTrack(queue[index + 1], FALSE)
         ELSE /\ NoPlay
              /\ UNCHANGED current_track_index
    /\ UNCHANGED << queue, shuffle_enabled, loop_mode, original_queue, sleeping,
                    out_of_range, ffplay, vlc, flet >>

\* Lines 2180-2183, _prev_track: the index is decremented, then the queue is
\* indexed; IndexError leaves the handler.
PrevTrack ==
    /\ IF current_track_index > 0
         THEN /\ current_track_index' = current_track_index - 1
              /\ IF ValidIndex(current_track_index - 1, queue)
                   THEN /\ PlayTrack(queue[current_track_index], FALSE)
                        /\ UNCHANGED out_of_range
                   ELSE /\ NoPlay
                        /\ out_of_range' = TRUE
         ELSE /\ NoPlay
              /\ UNCHANGED << current_track_index, out_of_range >>
    /\ UNCHANGED << queue, shuffle_enabled, loop_mode, original_queue, sleeping,
                    ffplay, vlc, flet >>

\* The queue: the user's clicks and the track-end events.  The threads of
\* _on_player_error do not run.
NextQueue ==
    \/ \E track \in Tracks : PlayTrackFromList(track)
    \/ \E track \in Tracks : AddToQueue(track)
    \/ \E index \in 0..(MaxQueue - 1) : RemoveFromQueue(index)
    \/ ClearQueue
    \/ \E index \in 0..(MaxQueue - 1) : PlayFromQueue(index)
    \/ NextTrack
    \/ PrevTrack
    \/ ToggleShuffle
    \/ ToggleLoop

SpecQueue == InitVlc /\ [][NextQueue]_vars

\* The retries: the user plays single tracks while the threads of
\* _on_player_error run.
NextRetry ==
    \/ \E track \in Tracks : PlayTrackFromList(track)
    \/ ErrorTaskCount
    \/ ErrorTaskRetry

SpecRetry == InitVlc /\ [][NextRetry]_vars

\* ============================================================== progress
\* the callback raises and the lock stays held, as after a bare acquire()
PlayUrlErrorRaisesLockKept(t) ==
    /\ pc[t] = "pu_fail"
    /\ is_playing' = FALSE
    /\ on_error_calls' = [on_error_calls EXCEPT ![LastPid] = @ + 1]
    /\ cb_faults' = cb_faults \cup {"command_thread", "lock_held", "raised"}
    /\ Return(t)
    /\ last' = IF last = cmd[t] THEN "void" ELSE last
    /\ UNCHANGED << process, current_url, current_track, internal_stop, current_time,
                    duration, lock, settings, procState, started_volume, monitors,
                    track_end_calls, torn_down, spurious, ncmds, paused >>

\* Line 127, when the callback raises: the exception leaves the with block
\* of line 71, which releases the lock, and then play_url, whose caller
\* gets it.
PlayUrlErrorRaises(t) ==
    /\ pc[t] = "pu_fail"
    /\ is_playing' = FALSE
    /\ on_error_calls' = [on_error_calls EXCEPT ![LastPid] = @ + 1]
    /\ cb_faults' = cb_faults \cup {"command_thread", "lock_held", "raised"}
    /\ lock' = None
    /\ Return(t)
    /\ last' = IF last = cmd[t] THEN "void" ELSE last
    /\ UNCHANGED << process, current_url, current_track, internal_stop, current_time,
                    duration, settings, procState, started_volume, monitors,
                    track_end_calls, torn_down, spurious, ncmds, paused >>

\* what a command thread does next, in either engine
StepLive(t) ==
    \/ Step(t)
    \/ PlayUrlErrorRaises(t)
    \/ VlcStep(t)

\* The ffplay engine with play_url and stop called from every thread, while
\* Popen may fail, the callback may raise and ffplay may fail by itself.
NextLiveFfplay ==
    \/ \E t \in Threads : \E u \in Urls : Play(t, u)
    \/ \E t \in Threads : Stop(t)
    \/ \E t \in Threads : Step(t) \/ PlayUrlErrorRaises(t)
    \/ \E m \in Procs : MonitorRace(m)
    \/ \E p \in Procs : FaultExit(p)
    \/ \E p \in Procs : TerminateTakesEffect(p)

\* The VLC engine with play_url and stop called from every thread.
NextLiveVlc ==
    \/ \E ok \in BOOLEAN : VlcInitInstance(ok)
    \/ \E ok \in BOOLEAN : VlcInitPlayer(ok)
    \/ \E t \in Threads : \E u \in Sources : VlcPlay(t, u)
    \/ \E t \in Threads : VlcStop(t)
    \/ \E t \in Threads : VlcStep(t)
    \/ \E c \in Calls : FfmpegWrites(c)
    \/ \E c \in Calls : FfmpegExit0(c)
    \/ \E c \in Calls : FfmpegFails(c)
    \/ VlcEndReached
    \/ VlcEncounteredError

\* An application drives one of the two engines: the other one stays as it
\* was constructed.
NextLive ==
    \/ VlcIdle /\ NextLiveFfplay
    \/ ncmds = 0 /\ NextLiveVlc

\* a thread takes the lock it is waiting for
Acquire(t) ==
    \/ PlayUrlLock(t)
    \/ VlcPlayUrlLock(t)
    \/ VlcStopLock(t)

\* Every command thread that can take a step gets to take one: the
\* operating system schedules each runnable thread.  A thread that waits
\* for the lock gets it when the lock is free again and again: the waiter
\* is woken at each release.  Nothing is assumed of the processes: every
\* wait of a command has a timeout.
Scheduling ==
    \A t \in Threads : WF_vars(StepLive(t)) /\ SF_vars(Acquire(t))

SpecLive == InitVlc /\ [][NextLive]_vars /\ Scheduling

\* ------------------------------------------------------------ properties
get_time == current_time
get_length == IF duration # 0 THEN duration ELSE DefaultLength

MonitorRunning(m) == mpc[m] \in {"loop", "continue", "read", "wait", "check"}
\* every monitor has finished, or is reading a process that still runs
MonitorsSettled ==
    \A m \in Procs : \/ mpc[m] \in {"unstarted", "done"}
                     \/ MonitorRunning(m) /\ procState[proc[m]] \in Live
MonitorsDone == \A m \in Procs : mpc[m] \in {"unstarted", "done"}
Quiescent == AllIdle /\ MonitorsSettled

\* C1: at most one spawned ffplay process is alive at any time.
C1_AtMostOneLiveProcess == Cardinality(LiveProcs) <= 1

\* C2: a process torn down by stop, seek or pause never causes on_track_end,
\* even if it had exited with status 0 when the command ran.
C2_TornDownProcessIsSilent == ~spurious

\* C3: the process started by a play that no later command touched, once it
\* has exited with status 0 and the monitors have finished, has had
\* on_track_end called exactly once and on_error not at all.
C3_NaturalEndFiresOnce ==
    (last = "play" /\ AllIdle /\ MonitorsDone /\ UsedPids > 0
       /\ procState[LastPid] = "exit0")
    => (track_end_calls[LastPid] = 1 /\ on_error_calls[LastPid] = 0)

\* C4: per generation, on_track_end at most once, on_error at most once,
\* never both.
C4_AtMostOneTerminalEvent ==
    \A p \in Procs : track_end_calls[p] + on_error_calls[p] <= 1

\* C5: once every command has returned and the monitors have settled, the
\* engine is in the state of the last command: playing with a live
\* backend after play/resume/seek, not playing with no live backend after
\* pause/stop.
C5_ConvergesToLastCommand ==
    Quiescent =>
      /\ (last \in {"play", "resume", "seek"}
            /\ ~(process # None /\ procState[process] = "exit0"))
         => (process # None /\ procState[process] \in Live /\ is_playing)
      /\ last \in {"pause", "stop"} => (LiveProcs = {} /\ ~is_playing)

\* C6: no backend process is read by two running monitors.
C6_OneMonitorPerBackend ==
    \A p \in Procs : Cardinality({m \in Procs : MonitorRunning(m) /\ proc[m] = p}) <= 1

\* C7: a monitor observes the process of the play_url that started it.
C7_MonitorBoundAtSpawn ==
    \A m \in Procs : mpc[m] \notin {"unstarted", "bind"} => proc[m] = m

\* C8: a thread that terminates, waits for, kills, clears or creates the
\* backend handle holds the lock.
C8_HandleChangesUnderLock ==
    \A t \in Threads :
        pc[t] \in {"si_term", "si_wait", "si_kill", "si_clear", "pu_spawn"} => lock = t

\* C9: no callback is invoked with the lock held or on a command thread.
C9_CallbacksOffLockOffCommandThread == cb_faults = {}

\* C10: when stop() has returned and nothing was issued since, get_time()
\* and get_length() return 0.
C10_StopResetsTimeAndLength ==
    (AllIdle /\ last = "stop") => (get_time = 0 /\ get_length = 0)

\* C11: a resume that follows a pause restarts the source at the position
\* the engine had when the pause returned, and on_track_end is not called
\* for the paused process once the pause has returned.
C11_ResumeRestartsAtPausedPosition ==
    /\ \A t \in Threads :
          (cmd[t] = "resume" /\ last = "resume" /\ Len(paused) = 3)
             => (url[t] = current_url /\ start_pos[t] = paused[2])
    /\ (Len(paused) = 3 /\ paused[1] # None)
          => track_end_calls[paused[1]] = paused[3]

\* C16: when ffplay has exited by itself with a non-zero status and the
\* monitor that read it has finished, on_error has been called exactly once
\* for that process and on_track_end not at all.
C16_FaultReportedOnce ==
    \A p \in Procs :
        (procState[p] = "fault" /\ mpc[p] = "done" /\ proc[p] = p /\ AllIdle)
           => (on_error_calls[p] = 1 /\ track_end_calls[p] = 0)

\* number of on_error calls so far
RECURSIVE ErrorsUpTo(_)
ErrorsUpTo(n) == IF n = 0 THEN 0 ELSE on_error_calls[n] + ErrorsUpTo(n - 1)
ErrorReports == ErrorsUpTo(MaxProcs)

\* C17: when play_url has returned because ffplay is not available, nothing
\* was spawned, is_playing is False and on_error has been called exactly
\* once.
C17_UnavailableReportedOnce ==
    (last = "unavailable" /\ AllIdle)
       => (Spawned = {} /\ ~is_playing /\ ErrorReports = 1)

VlcAllIdle == \A t \in Threads : vpc[t] = "idle"

C19_SpawnUsesLatestVolume ==
    [][ /\ (volume' # volume) => UNCHANGED << process, procState >>
        /\ (procState' # procState /\ UsedPids' > UsedPids)
              => started_volume' = << volume >> ]_vars

\* a later command has started ffplay with a volume set after the first play
C19_Witness ==
    /\ UsedPids >= 2
    /\ last \in {"resume", "seek", "play"}
    /\ process = LastPid
    /\ procState[LastPid] = "alive"
    /\ started_volume = << volume >>
    /\ volume # DefaultVolume

\* C20: a duration that is set changes only by the reset to 0 of a stop or
\* of the play of a new track, and once every command has returned a
\* duration is written only by the monitor of the process the engine holds.
C20_DurationLatched ==
    [][ /\ (duration # 0 /\ duration' # duration)
              => (duration' = 0 /\ \E t \in Threads :
                                     pc[t] = "si_reset" /\ ~preserve_state[t])
        /\ (AllIdle /\ duration' # duration /\ duration' # 0)
              => \E m \in Procs : /\ mpc[m] = "read" /\ mpc'[m] = "loop"
                                   /\ proc[m] = process ]_vars


\* C12: a play_url whose conversion was running when another thread issued
\* stop() never starts the VLC player and fires no callback, and its
\* temporary file is gone once every command has returned.
C12_StopCancelsConversion ==
    \A k \in cancelled :
        /\ k \notin started
        /\ \A e \in events : e[1] # k
        /\ VlcAllIdle => k \notin disk

\* C13: a play_url whose conversion was running when another thread issued
\* play_url never starts the VLC player, and its temporary file is gone
\* once every command has returned.
C13_SupersededConversionNeverPlays ==
    \A k \in superseded :
        /\ k \notin started
        /\ VlcAllIdle => k \notin disk

\* C14: a play_url whose conversion failed (non-zero exit, timeout, ffmpeg
\* missing) never starts the VLC player.
C14_FailedConversionStartsNothing ==
    \A k \in conv_failed : k \notin started

\* C15: at most one temporary file exists, and when the playback of a
\* converted file has ended naturally its file is deleted and temp_file is
\* cleared.
C15_TempFileOnlyWhileCurrent ==
    /\ Cardinality(disk) <= 1
    /\ (playerState = "ended" /\ media[1] = "temp")
          => (media[2] \notin disk /\ temp_file = None)

\* C21: while no command is running and none is issued, the position that
\* get_time() returns never decreases.
C21_PositionMonotonic ==
    [][(AllIdle /\ AllIdle') => current_time' >= current_time]_vars

\* the time since seek or resume was called is within the grace window
SeekIsRecent == seek_at # << >> /\ clock - seek_at[1] < GraceWindow

\* C22: when a position is reported, a sample of 0 that comes while the
\* position is beyond 2000 ms and no seek or resume was called within the
\* grace window leaves current_position as it is, and every sample other
\* than 0 becomes current_position.
C22_ZeroFlinchIgnored ==
    [][\A d \in Samples : (OnPositionChanged(d) \/ MonitorLoopPosition(d)) =>
          /\ (DurationMs(d) = 0 /\ current_position > FlinchThreshold /\ ~SeekIsRecent)
                => current_position' = current_position
          /\ DurationMs(d) # 0 => current_position' = DurationMs(d)]_vars

\* a sample of 0 has been dropped at a position beyond 2000 ms, long after
\* the last seek
C22_Witness ==
    /\ last_sample = << 0, FALSE >>
    /\ current_position > FlinchThreshold
    /\ seek_at # << >>
    /\ ~SeekIsRecent

\* C23: a sample of 0 that is reported within the grace window after seek
\* or resume was called becomes current_position.
C23_GraceWindowAfterSeek ==
    [][\A d \in Samples : (OnPositionChanged(d) \/ MonitorLoopPosition(d)) =>
          ((DurationMs(d) = 0 /\ SeekIsRecent) => current_position' = 0)]_vars

\* C24: set_position(f) does what seek(f * duration) does when a duration
\* has been parsed, and changes nothing of the engine otherwise.
C24_SetPositionIsSeek ==
    [][\A t \in Threads : \A f \in {0, 1} : SetPosition(t, f) =>
          IF duration = 0
            THEN UNCHANGED << engine, lock, procState, locals, monitors, observed >>
            ELSE Seek(t, f * duration)]_vars

\* set_position(1) has restarted ffplay at the end of a source whose
\* duration was parsed
C24_Witness ==
    /\ last = "seek"
    /\ AllIdle
    /\ duration > 0
    /\ current_time = duration
    /\ UsedPids >= 2
    /\ process = LastPid
    /\ procState[LastPid] = "alive"

\* C25: after a play has returned and until a duration has been parsed,
\* get_length() returns 0.
C25_LengthZeroUntilSample ==
    (last = "play" /\ AllIdle /\ duration = 0) => get_length = 0

\* C26: the process that a seek beyond the known duration has started
\* causes at most one call of on_track_end or on_error.
C26_SeekBeyondDuration ==
    \A p \in Procs :
        (last = "seek" /\ AllIdle /\ p = LastPid
           /\ procState[p] \notin {"unspawned", "failed"})
           => track_end_calls[p] + on_error_calls[p] <= 1

\* C27: once stop() has returned, no process is alive and is_playing is
\* False, and a resume() called next (toggle_play_pause() calls it) does
\* not enter play_url.
C27_StopDiscardsSession ==
    [][(AllIdle /\ last = "stop") =>
          /\ LiveProcs = {}
          /\ ~is_playing
          /\ \A t \in Threads : cmd'[t] # "resume"]_vars

\* a pause that found the engine playing has returned and no command was
\* issued since
PausedNow == Len(paused) = 3 /\ last = "pause" /\ AllIdle

\* C28: after a pause from playing no process is alive and is_playing is
\* False; the statements of pause() leave the source, the position and the
\* duration as they are; no process is spawned while the engine stays
\* paused; and pause() changes nothing when is_playing is False.
C28_PauseIsEmulated ==
    /\ [](PausedNow => (LiveProcs = {} /\ ~is_playing))
    /\ [][/\ \A t \in Threads : (cmd[t] = "pause" /\ pc'[t] # pc[t])
                => UNCHANGED << current_url, current_track, current_time, duration >>
          /\ (PausedNow /\ AllIdle') => UsedPids' = UsedPids
          /\ (~is_playing /\ last' = "pause" /\ ncmds' # ncmds)
                => UNCHANGED << engine, lock, procState, locals, monitors >>]_vars

\* the engine is paused on a source whose position and duration are known,
\* and the process of that source has been terminated
C28_Witness ==
    /\ PausedNow
    /\ paused[1] # None
    /\ procState[paused[1]] = "killed"
    /\ current_url # None
    /\ current_time # 0
    /\ duration # 0

\* C29: once a seek has returned with its process running, that process is
\* the one the engine holds and the only one alive, and is_playing is True;
\* the statements of seek leave the source and the duration as they are;
\* and a seek without a source changes nothing.
C29_SeekRestartsPlaying ==
    /\ []((last = "seek" /\ AllIdle /\ procState[LastPid] = "alive")
             => (process = LastPid /\ LiveProcs = {LastPid} /\ is_playing))
    /\ [][/\ \A t \in Threads : (cmd[t] = "seek" /\ pc'[t] # pc[t])
                => UNCHANGED << current_url, duration >>
          /\ (current_url = None /\ ncmds' # ncmds /\ last' = "void")
                => UNCHANGED << engine, lock, procState, locals, monitors >>]_vars

\* thread t is inside stop_internal
InStopInternal(t) ==
    pc[t] \in {"si_flag", "si_if", "si_term", "si_wait", "si_kill", "si_clear",
               "si_playing", "si_reset"}

\* C30: stop_internal always comes to its end, whether or not the process
\* exits when asked to, and at its end self.process is None and is_playing
\* is False.
C30_TeardownCompletes ==
    /\ \A t \in Threads : InStopInternal(t) ~> ~InStopInternal(t)
    /\ [][\A t \in Threads : (InStopInternal(t) /\ ~InStopInternal(t)')
             => (process' = None /\ ~is_playing')]_vars

\* stop() has returned after its process, which had not exited within the
\* wait, was killed
C30_Witness ==
    /\ last = "stop"
    /\ AllIdle
    /\ process = None
    /\ ~is_playing
    /\ \E p \in Procs : procState[p] = "killed" /\ mpc[p] \in {"loop", "read", "wait"}

\* C31: a step of a progress monitor changes the position and the duration
\* only: it leaves is_playing, process, current_url and the suppression flag
\* as they are and does not take the engine lock.
C31_MonitorWritesTimeOnly ==
    [][\A m \in Procs : Monitor(m) =>
          UNCHANGED << is_playing, process, current_url, internal_stop, lock >>]_vars

\* C32: a line that contains nan is discarded whole: handling it changes
\* neither the position nor the duration and calls no callback.
C32_NanLineDiscarded ==
    [][\A m \in Procs : \A line \in Lines :
          (line[1] \in {"nan", "nan_dur", "nan_time"} /\ MonitorLine(m, line))
             => UNCHANGED << current_time, duration, track_end_calls, on_error_calls >>]_vars

\* a monitor is at the continue of line 163 while the duration is unknown
\* and the position differs from what such a line could give
C32_Witness ==
    \E m \in Procs : /\ mpc[m] = "continue"
                     /\ duration = 0
                     /\ current_time # MaxTime
                     /\ procState[proc[m]] = "alive"

\* C33: when play_url returns after a successful spawn, is_playing is True
\* and the position is start_pos; and while the monitor of the new process
\* has not started, no monitor that reads an earlier process changes the
\* position.
C33_StartPositionKept ==
    [][ /\ \A t \in Threads : PlayUrlStartMonitor(t)
              => (is_playing' /\ get_time' = start_pos[t])
        /\ \A m \in Procs :
              (AllIdle /\ last \in Spawners /\ process = LastPid
                 /\ mpc[LastPid] = "bind" /\ proc[m] # process /\ Monitor(m))
              => get_time' = get_time ]_vars

\* C35: when no command is running and every monitor has finished,
\* is_playing is True exactly when self.process refers to a live process.
C35_PlayingIffLiveProcess ==
    (AllIdle /\ MonitorsDone)
       => (is_playing <=> (process # None /\ procState[process] \in Live))

\* C34: after a play that is not a retry, the error handler plays the track
\* again at most MaxRetries times, and the retry counter goes back to 0
\* only in a call of _play_track that is not a retry.
C34_RetriesBounded ==
    /\ [](auto_plays <= MaxRetries)
    /\ [][(current_retry_count # 0 /\ current_retry_count' = 0)
             => (issued' # << >> /\ ~issued'[2])]_vars

\* C36: in the loop mode that _toggle_loop calls loop-one, _next_track plays
\* the entry at current_track_index again and changes neither the queue nor
\* the index.
C36_LoopOneReplays ==
    [][(loop_mode = "one" /\ ValidIndex(current_track_index, queue) /\ NextTrack)
          => /\ issued' = << queue[current_track_index + 1], FALSE >>
             /\ UNCHANGED << queue, current_track_index >>]_vars

\* C37: without shuffle, _next_track on the last entry of the queue goes
\* back to the first entry and plays it in the loop mode that _toggle_loop
\* calls loop-all, and plays nothing and keeps the index with loop off.
C37_LoopAllWraps ==
    [][(~shuffle_enabled /\ queue # << >> /\ current_track_index = Len(queue) - 1
          /\ NextTrack)
          => /\ loop_mode = "all" => (/\ current_track_index' = 0
                                      /\ issued' = << queue[1], FALSE >>)
             /\ loop_mode = "off" => (/\ issued' = << >>
                                      /\ UNCHANGED current_track_index)]_vars

\* C38: current_track_index is -1 or an index of the queue, and no handler
\* has indexed the queue out of range.
C38_IndexInRange ==
    /\ current_track_index = -1 \/ ValidIndex(current_track_index, queue)
    /\ ~out_of_range

\* C39: when shuffle is switched on with loop off while the entry at
\* current_track_index is playing, the entry that the next track end removes,
\* the one at current_track_index, is still the track that is playing; and
\* switching shuffle off keeps the tracks that were added to the queue while
\* it was on.
C39_ShufflePlaysEachOnce ==
    [][ /\ (~shuffle_enabled /\ loop_mode = "off" /\ ToggleShuffle
              /\ ValidIndex(current_track_index, queue)
              /\ queue[current_track_index + 1] = flet_current_track)
           => queue'[current_track_index' + 1] = flet_current_track'
        /\ (shuffle_enabled /\ ToggleShuffle)
           => \A i \in 1..Len(queue) :
                 (\A j \in 1..Len(original_queue) : original_queue[j] # queue[i])
                    => \E k \in 1..Len(queue') : queue'[k] = queue[i] ]_vars

====
